---- MODULE Spec2Model ----
(***************************************************************************)
(* virterm: a script driver (src/main.rs) that supervises one child        *)
(* process under a PTY (src/proc.rs).  The model has four processes: the   *)
(* driver (main_loop), the child, the waiter thread that reaps the child,  *)
(* and the background reader that feeds the child's output to the VT       *)
(* parser under its mutex.                                                 *)
(***************************************************************************)
EXTENDS Integers, Sequences, FiniteSets, TLC

\* ------------------------------------------------------------------ bounds
\* Number of script lines read_line may return before end of file.
MaxLines == 3
\* Number of output items the child may write to its terminal.
MaxOut == 2

\* ------------------------------------------------------------------ values
NoErr == ""
ErrNotStarted == "Process has not been started"
ErrAlreadyStarted == "Process was already started"
ErrWaitTwice == "Can't wait the process more than once"
ErrTimeout == "deadline has elapsed"
ErrSpawn == "spawn failed"
ErrKill == "kill failed"
ErrIo == "io error"

NoProc == [pid |-> 0, wait |-> FALSE]
NoCmd == [op |-> "none"]

\* Keys (src/key.rs): a code, a character for code "Char", and modifiers.
KeyChar(c) == [code |-> "Char", ch |-> c, mods |-> {}]
KeyMod(c, m) == [code |-> "Char", ch |-> c, mods |-> m]
KeyNamed(n) == [code |-> n, ch |-> "", mods |-> {}]

\* Key::from_char: the key of one character, without modifiers.
Key_from_char(ch) == KeyChar(ch)

\* Byte values of the characters the model uses.
Ord == [a |-> 97, b |-> 98, x |-> 120, d1 |-> 49]
Letters == {"a", "b", "x"}
ArrowFinal == [Up |-> 65, Down |-> 66, Right |-> 67, Left |-> 68]
Arrows == {"Up", "Down", "Right", "Left"}

\* encode_key(key, modes): the bytes of a key, or an error for an
\* unsupported combination.
RECURSIVE encode_key(_, _)
encode_key(key, modes) ==
  IF "Alt" \in key.mods
  THEN LET r == encode_key([key EXCEPT !.mods = @ \ {"Alt"}], modes)
       IN  [ok |-> r.ok, bytes |-> IF r.ok THEN <<27>> \o r.bytes ELSE <<>>]
  ELSE IF key.code = "Char" /\ key.mods = {}
  THEN [ok |-> TRUE, bytes |-> <<Ord[key.ch]>>]
  ELSE IF key.code = "Char" /\ key.mods = {"Ctrl"} /\ key.ch \in Letters
  THEN [ok |-> TRUE, bytes |-> <<Ord[key.ch] - 96>>]
  ELSE IF key.code = "Enter" /\ key.mods = {}
  THEN [ok |-> TRUE, bytes |-> IF modes.newline_mode THEN <<13, 10>> ELSE <<13>>]
  ELSE IF key.code \in Arrows /\ key.mods = {}
  THEN [ok |-> TRUE,
        bytes |-> <<27, IF modes.application_cursor_keys THEN 79 ELSE 91,
                    ArrowFinal[key.code]>>]
  ELSE [ok |-> FALSE, bytes |-> <<>>]

\* ------------------------------------------------------------------ script
\* A line is the sequence of its lexemes; "Hash" is a # and "Bad" a character
\* no token starts with.
Ident(s) == [t |-> "Ident", v |-> s]
Str(s) == [t |-> "String", v |-> s]
ArgT(s) == [t |-> "Arg", v |-> s]
Dur(n) == [t |-> "Duration", v |-> n]
KeyT(k) == [t |-> "Key", v |-> k]
Hash == [t |-> "Hash", v |-> ""]
Space == [t |-> "Space", v |-> ""]
Bad == [t |-> "Bad", v |-> ""]
Eof == [t |-> "Eof", v |-> ""]

\* The lines a script is made of.
ScriptLines ==
  << <<Ident("start"), Str(<<"s", "h">>)>>,
     <<Ident("send_keys"), Str(<<"a", "b">>), KeyT(KeyNamed("Up"))>>,
     <<Ident("send_keys"), KeyT(KeyMod("d1", {"Ctrl"})), Str(<<"x">>)>>,
     <<Ident("kill")>>,
     <<Ident("wait")>>,
     <<Ident("wait_text"), Str(<<"x">>)>>,
     <<Ident("sleep"), Dur(100)>>,
     <<Ident("print"), Str(<<"o", "k">>)>>,
     <<Ident("dump_png"), Str(<<"p">>)>>,
     <<Ident("dump_txt"), Str(<<"t">>)>>,
     <<Hash, Ident("kill")>>,
     <<Ident("bogus")>>,
     <<>>,
     <<Space>>,
     <<Space, Hash, Space, Ident("kill")>>,
     <<Space, Ident("kill"), Space, Hash, Ident("wait")>>,
     <<Ident("kill"), Space, Str(<<"x">>)>>,
     <<Ident("dump_txt"), Space, Str(<<"t">>), Space, Str(<<"u">>)>> >>

\* CommandParser::skip_spaces: the position of the next lexeme that is not
\* whitespace, or the end of the line.
RECURSIVE skip_spaces(_, _)
skip_spaces(line, pos) ==
  IF pos <= Len(line) /\ line[pos].t = "Space"
  THEN skip_spaces(line, pos + 1)
  ELSE pos

\* Mutant: a # is a character no token starts with.
next_token_no_comment(line, pos) ==
  LET p == skip_spaces(line, pos)
  IN  IF p > Len(line) THEN [ok |-> TRUE, tok |-> Eof, pos |-> p]
      ELSE IF line[p].t \in {"Hash", "Bad"}
      THEN [ok |-> FALSE, tok |-> Eof, pos |-> p]
      ELSE [ok |-> TRUE, tok |-> line[p], pos |-> p + 1]

\* CommandParser::next_token at position pos (1-based) of a line.
next_token(line, pos) ==
  LET p == skip_spaces(line, pos)
  IN  IF p > Len(line) THEN [ok |-> TRUE, tok |-> Eof, pos |-> p]
      ELSE IF line[p].t = "Hash" THEN [ok |-> TRUE, tok |-> Eof, pos |-> p]
      ELSE IF line[p].t = "Bad" THEN [ok |-> FALSE, tok |-> Eof, pos |-> p]
      ELSE [ok |-> TRUE, tok |-> line[p], pos |-> p + 1]

ParseErr(msg) == [ok |-> FALSE, cmd |-> NoCmd, err |-> msg]
ParseOk(c) == [ok |-> TRUE, cmd |-> c, err |-> NoErr]

\* Mutant: the characters of a string token are pushed last first.
StringKeys_reversed(s) == [i \in 1..Len(s) |-> Key_from_char(s[Len(s) + 1 - i])]

\* The keys of a string token, one per character, in string order.
StringKeys(s) == [i \in 1..Len(s) |-> Key_from_char(s[i])]

\* The "start" arm of CommandParser::parse.
RECURSIVE ParseStart(_, _, _)
ParseStart(line, pos, args) ==
  LET r == next_token(line, pos)
  IN  IF ~r.ok THEN ParseErr("Unexpected char")
      ELSE IF r.tok.t = "String" THEN ParseStart(line, r.pos, Append(args, r.tok.v))
      ELSE IF r.tok.t = "Eof"
      THEN IF Len(args) = 0
           THEN ParseErr("The 'start' command expects at least one argument")
           ELSE ParseOk([op |-> "start", args |-> args])
      ELSE ParseErr("The 'start' command accepts strings only")

\* The "send_keys" arm of CommandParser::parse.
RECURSIVE ParseSendKeys(_, _, _)
ParseSendKeys(line, pos, keys) ==
  LET r == next_token(line, pos)
  IN  IF ~r.ok THEN ParseErr("Unexpected char")
      ELSE IF r.tok.t = "String"
      THEN ParseSendKeys(line, r.pos, keys \o StringKeys(r.tok.v))
      ELSE IF r.tok.t = "Key" THEN ParseSendKeys(line, r.pos, Append(keys, r.tok.v))
      ELSE IF r.tok.t = "Eof" THEN ParseOk([op |-> "send_keys", keys |-> keys])
      ELSE ParseErr("The 'send_keys' command accepts strings and keys only")

\* The "wait_text" arm of CommandParser::parse; text is <<>> while None and
\* <<s>> once a string was seen.
RECURSIVE ParseWaitText(_, _, _, _)
ParseWaitText(line, pos, text, timeout) ==
  LET r == next_token(line, pos)
  IN  IF ~r.ok THEN ParseErr("Unexpected char")
      ELSE IF r.tok.t = "String"
      THEN IF text # <<>>
           THEN ParseErr("The 'wait_text' command expects only one string")
           ELSE ParseWaitText(line, r.pos, <<r.tok.v>>, timeout)
      ELSE IF r.tok.t = "Arg"
      THEN IF r.tok.v = "timeout"
           THEN LET d == next_token(line, r.pos)
                IN  IF ~d.ok THEN ParseErr("Unexpected char")
                    ELSE IF d.tok.t = "Duration"
                    THEN ParseWaitText(line, d.pos, text, d.tok.v)
                    ELSE ParseErr("The 'timeout' arg expects a duration")
           ELSE ParseErr("Unexpected argument")
      ELSE IF r.tok.t = "Eof"
      THEN IF text = <<>>
           THEN ParseErr("The 'wait_text' command expects a string")
           ELSE ParseOk([op |-> "wait_text", text |-> text[1], timeout |-> timeout])
      ELSE ParseErr("The 'wait_text' command expects a string")

\* The one-token arms of CommandParser::parse (sleep, print, dump_png,
\* dump_txt): the next token must be of kind want.
ParseOne(line, pos, op, want, msg) ==
  LET r == next_token(line, pos)
  IN  IF ~r.ok THEN ParseErr("Unexpected char")
      ELSE IF r.tok.t = want THEN ParseOk([op |-> op, arg |-> r.tok.v])
      ELSE ParseErr(msg)

\* CommandParser::parse: a command, no command (NoCmd), or an error.
parse(line) ==
  LET r == next_token(line, 1)
  IN  IF ~r.ok THEN ParseErr("Unexpected char")
      ELSE IF r.tok.t = "Eof" THEN ParseOk(NoCmd)
      ELSE IF r.tok.t # "Ident" THEN ParseErr("Expected command identifier")
      ELSE IF r.tok.v = "start" THEN ParseStart(line, r.pos, <<>>)
      ELSE IF r.tok.v = "send_keys" THEN ParseSendKeys(line, r.pos, <<>>)
      ELSE IF r.tok.v = "kill" THEN ParseOk([op |-> "kill"])
      ELSE IF r.tok.v = "wait" THEN ParseOk([op |-> "wait"])
      ELSE IF r.tok.v = "wait_text" THEN ParseWaitText(line, r.pos, <<>>, 1000)
      ELSE IF r.tok.v = "sleep"
      THEN ParseOne(line, r.pos, "sleep", "Duration", "Expected duration")
      ELSE IF r.tok.v = "print"
      THEN ParseOne(line, r.pos, "print", "String", "Expected string")
      ELSE IF r.tok.v = "dump_png"
      THEN ParseOne(line, r.pos, "dump_png", "String", "Expected string")
      ELSE IF r.tok.v = "dump_txt"
      THEN ParseOne(line, r.pos, "dump_txt", "String", "Expected string")
      ELSE ParseErr("Unknown command")

\* ------------------------------------------------------------------ state
VARIABLES
  pc,         \* driver: "read", "send_keys", "wait", "wt_lock", "wt_sleep",
              \*         "dump_lock", "dump", "exited"
  lineNo,     \* lines read_line has returned
  cmd,        \* the command parsed from the last line
  keyIdx,     \* send_keys: index of the next key of cmd.keys
  proc,       \* State.proc: NoProc or the installed Proc
  spawned,    \* pids of the children spawned so far
  error,      \* the error main_loop returned, NoErr if none
  panicked,   \* the unwrap that panicked, "" if none
  exitCode,   \* exit code of the driver, -1 while it runs
  stdout,     \* number of PRINT lines written
  files,      \* the files dump_png and dump_txt wrote
  child,      \* "none", "running", "exited"
  killed,     \* the killer has signalled the running child
  status,     \* exit status of the child: "none", "zero", "nonzero"
  wpc,        \* waiter thread: "none", "waiting", "reaped", "done"
  emitted,    \* number of items the child has written
  ptyOut,     \* child output the reader has not read yet
  ptyIn,      \* bytes written to the PTY master
  oneshot,    \* the wait channel: "none", "empty", "sent", "received"
  rpc,        \* reader: "none", "read", "lock", "process", "sleep", "exited"
  rbuf,       \* the bytes of the reader's last read
  vtLock,     \* holder of the VT parser mutex: "free", "driver", "reader"
  contents,   \* screen().contents()
  appCursor,  \* screen().application_cursor()
  expKeys,    \* history: the keys of the send_keys commands executed so far
  ackLog,     \* history: application_cursor at each send_key call
  waitsTaken, \* history: number of times a wait took the receiver
  wtSeen,     \* history: the text was on screen at some instant of this wait_text
  script,     \* parser run: the lines read_line has returned, in order
  executed,   \* parser run: the commands main_loop has dispatched, in order
  sdone,      \* parser run: "run", "eof", "error"
  mouseEv,    \* mouse run: the MouseEvent given to send_mouse
  mouseRes,   \* mouse run: "none", "ok", "err", "panic"
  vtSize,     \* the size of the VT parser's screen, [rows, cols]
  ptySize,    \* the size of the PTY, [rows, cols]
  observed,   \* what the last cell()/contents() call returned
  master,     \* Proc.master: "open", or "dropped" with the Proc
  png,        \* dump_png: the screen it draws and the cell it is at
  canvas,     \* dump_png: the image, pixel by pixel
  num         \* next_token at a number: the text, the position and buf

vars == <<pc, lineNo, cmd, keyIdx, proc, spawned, error, panicked, exitCode,
          stdout, files, child, killed, status, wpc, emitted, ptyOut, ptyIn, oneshot, rpc, rbuf,
          vtLock, contents, appCursor, expKeys, ackLog, waitsTaken, wtSeen,
          script, executed, sdone, mouseEv, mouseRes, vtSize, ptySize, observed,
          master, png, canvas, num>>

\* The variables the script driver's commands never touch.
extVars == <<master, png, canvas, num>>
auxVars == <<script, executed, sdone, mouseEv, mouseRes, vtSize, ptySize, observed,
             extVars>>

driverVars == <<pc, lineNo, cmd, keyIdx, proc, spawned, error, panicked,
                exitCode, stdout, files, ptyIn, expKeys, ackLog, waitsTaken>>
procEnvVars == <<child, killed, status, wpc, emitted, ptyOut, oneshot, rpc, rbuf>>
vtVars == <<vtLock, contents, appCursor>>

\* What the child may write: a character, a clear-screen sequence, and the
\* sequence ESC[?1h that turns application-cursor mode on.
OutItems == {"x", "CLR", "APP"}

\* vt100::Parser::process on one item, then on a buffer.
vt_item(vt, item) ==
  IF item = "CLR" THEN [vt EXCEPT !.contents = <<>>]
  ELSE IF item = "APP" THEN [vt EXCEPT !.app = TRUE]
  ELSE [vt EXCEPT !.contents = Append(@, item)]

RECURSIVE vt_process(_, _)
vt_process(vt, buf) ==
  IF buf = <<>> THEN vt ELSE vt_process(vt_item(vt, Head(buf)), Tail(buf))

\* str::contains on sequences of characters.
Contains(hay, needle) ==
  \E i \in 0..(Len(hay) - Len(needle)) :
    \A j \in 1..Len(needle) : hay[i + j] = needle[j]

\* ProcConfig::default: 80 columns, 30 rows.
DefaultSize == [rows |-> 30, cols |-> 80]
NoMouse == [kind |-> "none", btn |-> "none", column |-> 0, row |-> 0]

\* No dump_png is running.
NoGlyph == [minx |-> 0, miny |-> 0, w |-> 0, h |-> 0]
NoPng == [phase |-> "idle", h |-> 0, w |-> 0, row |-> 0, col |-> 0,
          grow |-> 0, gcol |-> 0, glyph |-> NoGlyph]

\* No number is being read.
NoNum == [phase |-> "idle", text |-> <<>>, unit |-> "", pos |-> 1,
          buf |-> [hi |-> 0, lo |-> 0], overflow_checks |-> FALSE]

\* A pixel of RgbImage::new, before anything is drawn on it.
NewPixel == <<"new", 0, 0>>

\* Nothing was parsed, encoded, resized or observed outside the script run.
AuxInit ==
  /\ script = <<>> /\ executed = <<>> /\ sdone = "run"
  /\ mouseEv = NoMouse /\ mouseRes = "none"
  /\ vtSize = DefaultSize /\ ptySize = DefaultSize
  /\ observed = [op |-> "none", val |-> <<>>]
  /\ master = "open"
  /\ png = NoPng
  /\ canvas = [p \in {} |-> NewPixel]
  /\ num = NoNum

DriverInit ==
  /\ pc = "read" /\ lineNo = 0 /\ cmd = NoCmd /\ keyIdx = 1
  /\ proc = NoProc /\ spawned = {}
  /\ error = NoErr /\ panicked = "" /\ exitCode = -1
  /\ stdout = 0 /\ files = [png |-> <<>>, txt |-> <<>>]
  /\ child = "none" /\ killed = FALSE /\ status = "none" /\ wpc = "none"
  /\ emitted = 0 /\ ptyOut = <<>> /\ ptyIn = <<>>
  /\ oneshot = "none" /\ rpc = "none" /\ rbuf = <<>>
  /\ vtLock = "free" /\ contents = <<>> /\ appCursor = FALSE
  /\ expKeys = <<>> /\ ackLog = <<>> /\ waitsTaken = 0 /\ wtSeen = FALSE

Init == DriverInit /\ AuxInit

\* ------------------------------------------------------------------ driver
\* Command::parse(buf.as_str()) for each line a script can hold.
Parsed == [i \in 1..Len(ScriptLines) |-> parse(ScriptLines[i])]
Fetched(i) == Parsed[i]
CanFetch == pc = "read" /\ lineNo < MaxLines

EnvSame == UNCHANGED <<procEnvVars, vtVars>>

\* std::process::exit ends the reader and the waiter with the driver and
\* closes the PTY master; the parser and the channel are gone.
TearDown ==
  /\ child' = "none" /\ killed' = FALSE /\ status' = "none" /\ wpc' = "none"
  /\ emitted' = 0 /\ ptyOut' = <<>> /\ oneshot' = "none"
  /\ rpc' = "none" /\ rbuf' = <<>>
  /\ vtLock' = "free" /\ contents' = <<>> /\ appCursor' = FALSE

\* An error leaves main_loop through `?`: main logs it and exits with 1.
\* c is the command that failed.
Fail(c, msg) ==
  /\ pc' = "exited" /\ error' = msg /\ exitCode' = 1 /\ cmd' = c
  /\ UNCHANGED panicked
  /\ TearDown

\* A panic on the main task unwinds out of main: exit code 101.
Panic(c, site) ==
  /\ pc' = "exited" /\ panicked' = site /\ exitCode' = 101 /\ cmd' = c
  /\ UNCHANGED error
  /\ TearDown

\* The command is done and dropped; main_loop reads the next line.
Continue == pc' = "read" /\ cmd' = NoCmd /\ UNCHANGED <<error, panicked, exitCode>>

\* The command c stays in execution, the driver at position p.
Goto(c, p) == pc' = p /\ cmd' = c /\ UNCHANGED <<error, panicked, exitCode>>

\* Mutant: State::proc hands out the slot without looking at it.
State_proc_unchecked(p) == [ok |-> TRUE, err |-> NoErr]

\* State::proc: the installed Proc, or the error.
State_proc(p) ==
  IF p.pid # 0 THEN [ok |-> TRUE, err |-> NoErr]
  ELSE [ok |-> FALSE, err |-> ErrNotStarted]

\* Mutant: State::start_prog does not look at the slot.
StartAllowed_unchecked(p) == TRUE

\* State::start_prog's check of the slot.
StartAllowed(p) == p.pid = 0

\* Command::Start: State::start_prog and Proc::start.
CmdStart ==
  /\ CanFetch
  /\ \E i \in 1..Len(ScriptLines) :
       LET r == Fetched(i) IN
       /\ r.ok /\ r.cmd.op = "start"
       /\ lineNo' = lineNo + 1
       /\ IF ~StartAllowed(proc)
          THEN /\ Fail(r.cmd, ErrAlreadyStarted)
               /\ UNCHANGED <<proc, spawned>>
          ELSE \/ \* openpty or spawn_command fails
                  /\ Fail(r.cmd, ErrSpawn)
                  /\ UNCHANGED <<proc, spawned>>
               \/ \* the child runs; try_clone_reader().unwrap() panics
                  /\ Panic(r.cmd, "try_clone_reader")
                  /\ spawned' = spawned \cup {Cardinality(spawned) + 1}
                  /\ UNCHANGED proc
               \/ \* Ok(proc): the waiter and the reader are spawned
                  /\ Continue
                  /\ spawned' = spawned \cup {Cardinality(spawned) + 1}
                  /\ proc' = [pid |-> Cardinality(spawned) + 1, wait |-> TRUE]
                  /\ child' = "running" /\ killed' = FALSE /\ status' = "none"
                  /\ wpc' = "waiting" /\ oneshot' = "empty"
                  /\ emitted' = 0 /\ ptyOut' = <<>>
                  /\ rpc' = "read" /\ rbuf' = <<>>
                  /\ vtLock' = "free" /\ contents' = <<>> /\ appCursor' = FALSE
  /\ UNCHANGED <<auxVars, keyIdx, stdout, files, ptyIn, expKeys, ackLog, waitsTaken, wtSeen>>

\* The keys of a send_keys line, read off its lexemes.
RECURSIVE LineKeys(_)
LineKeys(lex) ==
  IF lex = <<>> THEN <<>>
  ELSE IF Head(lex).t = "Hash" THEN <<>>
  ELSE IF Head(lex).t = "String"
  THEN [i \in 1..Len(Head(lex).v) |-> KeyChar(Head(lex).v[i])] \o LineKeys(Tail(lex))
  ELSE <<Head(lex).v>> \o LineKeys(Tail(lex))

\* Command::SendKeys: the slot is checked, then the loop over the keys runs.
CmdSendKeys ==
  /\ CanFetch
  /\ \E i \in 1..Len(ScriptLines) :
       LET r == Fetched(i) IN
       /\ r.ok /\ r.cmd.op = "send_keys"
       /\ lineNo' = lineNo + 1
       /\ IF State_proc(proc).ok
          THEN /\ IF r.cmd.keys = <<>> THEN Continue ELSE Goto(r.cmd, "send_keys")
               /\ expKeys' = expKeys \o LineKeys(Tail(ScriptLines[i]))
               /\ EnvSame
          ELSE /\ Fail(r.cmd, State_proc(proc).err)
               /\ UNCHANGED expKeys
  /\ keyIdx' = 1
  /\ UNCHANGED <<auxVars, proc, spawned, stdout, files, ptyIn, ackLog, waitsTaken, wtSeen>>

\* `for key in keys`: the key of the idx-th iteration.
KeyAt(keys, idx) == keys[idx]

\* Mutant: Proc::send_key encodes without asking the screen for the mode.
send_key_mode_ignored(key, application_cursor_keys) ==
  LET encoder == encode_key(key, [enable_csi_u_key_encoding |-> FALSE,
                                  application_cursor_keys |-> FALSE,
                                  newline_mode |-> FALSE])
  IN  IF encoder.ok
      THEN [write |-> TRUE, bytes |-> encoder.bytes, panic |-> FALSE]
      ELSE [write |-> FALSE, bytes |-> <<>>, panic |-> FALSE]

\* Mutant: Proc::send_key unwraps the encoder.
send_key_unwrap(key, application_cursor_keys) ==
  LET encoder == encode_key(key, [enable_csi_u_key_encoding |-> FALSE,
                                  application_cursor_keys |-> application_cursor_keys,
                                  newline_mode |-> FALSE])
  IN  IF encoder.ok
      THEN [write |-> TRUE, bytes |-> encoder.bytes, panic |-> FALSE]
      ELSE [write |-> FALSE, bytes |-> <<>>, panic |-> TRUE]

\* Proc::send_key up to the write: the bytes to write, if the key encodes.
send_key(key, application_cursor_keys) ==
  LET encoder == encode_key(key, [enable_csi_u_key_encoding |-> FALSE,
                                  application_cursor_keys |-> application_cursor_keys,
                                  newline_mode |-> FALSE])
  IN  IF encoder.ok
      THEN [write |-> TRUE, bytes |-> encoder.bytes, panic |-> FALSE]
      ELSE [write |-> FALSE, bytes |-> <<>>, panic |-> FALSE]

\* The next iteration of the send_keys loop, or the next line.
NextKey ==
  /\ IF keyIdx >= Len(cmd.keys)
     THEN Continue /\ keyIdx' = 1
     ELSE Goto(cmd, "send_keys") /\ keyIdx' = keyIdx + 1
  /\ EnvSame

\* One iteration of the send_keys loop: Proc::send_key(key).  The mode is read
\* under the VT lock; write_all(..).unwrap() panics when the write fails, which
\* it can once the child is gone, after any part of the bytes was written.
SendKey ==
  /\ pc = "send_keys" /\ vtLock = "free"
  /\ LET sk == send_key(KeyAt(cmd.keys, keyIdx), appCursor) IN
       /\ ackLog' = Append(ackLog, appCursor)
       /\ IF sk.panic THEN Panic(cmd, "encode_key") /\ UNCHANGED <<ptyIn, keyIdx>>
          ELSE IF ~sk.write THEN NextKey /\ UNCHANGED ptyIn
          ELSE \/ /\ ptyIn' = ptyIn \o sk.bytes
                  /\ NextKey
               \/ /\ child # "running"
                  /\ \E n \in 0..(Len(sk.bytes) - 1) :
                       ptyIn' = ptyIn \o SubSeq(sk.bytes, 1, n)
                  /\ Panic(cmd, "write_all")
                  /\ UNCHANGED keyIdx
  /\ UNCHANGED <<auxVars, lineNo, proc, spawned, stdout, files, expKeys, waitsTaken, wtSeen>>

\* Command::Kill: killer.kill()?.  Signalling a child that was already reaped
\* can fail.
CmdKill ==
  /\ CanFetch
  /\ \E i \in 1..Len(ScriptLines) :
       LET r == Fetched(i) IN
       /\ r.ok /\ r.cmd.op = "kill"
       /\ lineNo' = lineNo + 1
       /\ IF State_proc(proc).ok
          THEN \/ /\ Continue
                  /\ killed' = (killed \/ child = "running")
                  /\ UNCHANGED <<child, status, wpc, emitted, ptyOut, oneshot,
                                 rpc, rbuf, vtVars>>
               \/ /\ wpc \in {"reaped", "done"}
                  /\ Fail(r.cmd, ErrKill)
          ELSE Fail(r.cmd, State_proc(proc).err)
  /\ UNCHANGED <<auxVars, keyIdx, proc, spawned, stdout, files, ptyIn, expKeys, ackLog,
                 waitsTaken, wtSeen>>

\* Mutant: Proc::wait looks at the receiver and leaves it in place.
wait_take_kept(p) == [some |-> p.wait, proc |-> p]

\* Proc::wait's self.wait.take(): whether a receiver was there, and the Proc
\* without it.
wait_take(p) == [some |-> p.wait, proc |-> [p EXCEPT !.wait = FALSE]]

\* Command::Wait: Proc::wait up to the await of the receiver.
CmdWait ==
  /\ CanFetch
  /\ \E i \in 1..Len(ScriptLines) :
       LET r == Fetched(i) IN
       /\ r.ok /\ r.cmd.op = "wait"
       /\ lineNo' = lineNo + 1
       /\ IF State_proc(proc).ok
          THEN IF wait_take(proc).some
               THEN /\ proc' = wait_take(proc).proc
                    /\ waitsTaken' = waitsTaken + 1
                    /\ Goto(r.cmd, "wait")
                    /\ EnvSame
               ELSE /\ proc' = wait_take(proc).proc
                    /\ Fail(r.cmd, ErrWaitTwice)
                    /\ UNCHANGED waitsTaken
          ELSE /\ Fail(r.cmd, State_proc(proc).err)
               /\ UNCHANGED <<proc, waitsTaken>>
  /\ UNCHANGED <<auxVars, keyIdx, spawned, stdout, files, ptyIn, expKeys, ackLog, wtSeen>>

\* Mutant: Proc::wait returns an error for a child that failed.
WaitDone_status_checked ==
  /\ pc = "wait" /\ oneshot = "sent"
  /\ IF status = "zero"
     THEN /\ oneshot' = "received"
          /\ Continue
          /\ UNCHANGED <<child, killed, status, wpc, emitted, ptyOut, rpc, rbuf,
                         vtVars>>
     ELSE Fail(cmd, "Process returned error")
  /\ UNCHANGED <<auxVars, lineNo, keyIdx, proc, spawned, stdout, files, ptyIn,
                 expKeys, ackLog, waitsTaken, wtSeen>>

\* Mutant: a completed wait takes the Proc out of the slot.
WaitDone_slot_emptied ==
  /\ pc = "wait" /\ oneshot = "sent"
  /\ oneshot' = "received"
  /\ proc' = NoProc
  /\ Continue
  /\ UNCHANGED <<auxVars, lineNo, keyIdx, spawned, stdout, files, ptyIn,
                 expKeys, ackLog, waitsTaken, wtSeen, child, killed, status, wpc,
                 emitted, ptyOut, rpc, rbuf, vtVars>>

\* Proc::wait after the await: the status is logged and wait returns Ok(()),
\* whatever the status.
WaitDone ==
  /\ pc = "wait" /\ oneshot = "sent"
  /\ oneshot' = "received"
  /\ Continue
  /\ UNCHANGED <<auxVars, lineNo, keyIdx, proc, spawned, stdout, files, ptyIn,
                 expKeys, ackLog, waitsTaken, wtSeen, child, killed, status, wpc,
                 emitted, ptyOut, rpc, rbuf, vtVars>>

InWaitText == pc \in {"wt_lock", "wt_sleep"}

\* Command::WaitText: the slot is checked, then the poll loop starts under
\* tokio::time::timeout.
CmdWaitText ==
  /\ CanFetch
  /\ \E i \in 1..Len(ScriptLines) :
       LET r == Fetched(i) IN
       /\ r.ok /\ r.cmd.op = "wait_text"
       /\ lineNo' = lineNo + 1
       /\ wtSeen' = (State_proc(proc).ok /\ Contains(contents, r.cmd.text))
       /\ IF State_proc(proc).ok
          THEN Goto(r.cmd, "wt_lock") /\ EnvSame
          ELSE Fail(r.cmd, State_proc(proc).err)
  /\ UNCHANGED <<auxVars, keyIdx, proc, spawned, stdout, files, ptyIn, expKeys, ackLog,
                 waitsTaken>>

\* Mutants: the check of a poll never matches; it always matches.
WtFound_never(screen, text) == FALSE
WtFound_always(screen, text) == TRUE

\* The check of one poll: vt.screen().contents().contains(text).
WtFound(screen, text) == Contains(screen, text)

\* Mutant: the guard of the poll that matches outlives the loop.
WtCheck_guard_kept ==
  /\ pc = "wt_lock" /\ vtLock = "free"
  /\ IF WtFound(contents, cmd.text) THEN Continue ELSE Goto(cmd, "wt_sleep")
  /\ vtLock' = "driver"
  /\ UNCHANGED <<auxVars, lineNo, keyIdx, proc, spawned, stdout, files, ptyIn,
                 expKeys, ackLog, waitsTaken, wtSeen, procEnvVars, contents,
                 appCursor>>

\* One poll: vt.lock().await, then the check.  On a match the loop breaks and
\* the guard is dropped; otherwise the task sleeps 50 ms with the guard alive.
WtCheck ==
  /\ pc = "wt_lock" /\ vtLock = "free"
  /\ IF WtFound(contents, cmd.text)
     THEN /\ Continue
          /\ UNCHANGED vtLock
     ELSE /\ Goto(cmd, "wt_sleep")
          /\ vtLock' = "driver"
  /\ UNCHANGED <<auxVars, lineNo, keyIdx, proc, spawned, stdout, files, ptyIn,
                 expKeys, ackLog, waitsTaken, wtSeen, procEnvVars, contents,
                 appCursor>>

\* The sleep ends: the guard is dropped at the end of the loop body and the
\* next iteration locks again.
WtWake ==
  /\ pc = "wt_sleep"
  /\ Goto(cmd, "wt_lock")
  /\ vtLock' = "free"
  /\ UNCHANGED <<auxVars, lineNo, keyIdx, proc, spawned, stdout, files, ptyIn, expKeys,
                 ackLog, waitsTaken, wtSeen, procEnvVars, contents, appCursor>>

\* The deadline passes while the poll loop is pending (in its sleep, or in
\* lock().await with the reader holding the lock): the loop is dropped, with
\* its guard, and Elapsed is returned through `?`.
WtTimeout ==
  /\ \/ pc = "wt_sleep"
     \/ pc = "wt_lock" /\ vtLock = "reader"
  /\ Fail(cmd, ErrTimeout)
  /\ UNCHANGED <<auxVars, lineNo, keyIdx, proc, spawned, stdout, files, ptyIn,
                 expKeys, ackLog, waitsTaken, wtSeen>>

\* Command::Sleep.
CmdSleep ==
  /\ CanFetch
  /\ \E i \in 1..Len(ScriptLines) :
       LET r == Fetched(i) IN
       /\ r.ok /\ r.cmd.op = "sleep"
       /\ lineNo' = lineNo + 1
  /\ Continue
  /\ EnvSame
  /\ UNCHANGED <<auxVars, keyIdx, proc, spawned, stdout, files, ptyIn, expKeys, ackLog,
                 waitsTaken, wtSeen>>

\* Command::Print.
CmdPrint ==
  /\ CanFetch
  /\ \E i \in 1..Len(ScriptLines) :
       LET r == Fetched(i) IN
       /\ r.ok /\ r.cmd.op = "print"
       /\ lineNo' = lineNo + 1
  /\ stdout' = stdout + 1
  /\ Continue
  /\ EnvSame
  /\ UNCHANGED <<auxVars, keyIdx, proc, spawned, files, ptyIn, expKeys, ackLog,
                 waitsTaken, wtSeen>>

\* Command::DumpPng and Command::DumpTxt up to proc.vt.lock().await.
CmdDump(op) ==
  /\ CanFetch
  /\ \E i \in 1..Len(ScriptLines) :
       LET r == Fetched(i) IN
       /\ r.ok /\ r.cmd.op = op
       /\ lineNo' = lineNo + 1
       /\ IF State_proc(proc).ok
          THEN Goto(r.cmd, "dump_lock") /\ EnvSame
          ELSE Fail(r.cmd, State_proc(proc).err)
  /\ UNCHANGED <<auxVars, keyIdx, proc, spawned, stdout, files, ptyIn, expKeys, ackLog,
                 waitsTaken, wtSeen>>

CmdDumpPng == CmdDump("dump_png")
CmdDumpTxt == CmdDump("dump_txt")

\* The dump acquires the VT lock.
DumpLock ==
  /\ pc = "dump_lock" /\ vtLock = "free"
  /\ Goto(cmd, "dump")
  /\ vtLock' = "driver"
  /\ UNCHANGED <<auxVars, lineNo, keyIdx, proc, spawned, stdout, files, ptyIn, expKeys,
                 ackLog, waitsTaken, wtSeen, procEnvVars, contents, appCursor>>

\* dump_png / dump_txt write the screen to the file, or fail with an IO
\* error; the guard is dropped either way.
DumpWrite ==
  /\ pc = "dump"
  /\ \/ /\ files' = IF cmd.op = "dump_png"
                    THEN [files EXCEPT !.png = <<contents>>]
                    ELSE [files EXCEPT !.txt = <<contents>>]
        /\ Continue
        /\ vtLock' = "free"
        /\ UNCHANGED <<procEnvVars, contents, appCursor>>
     \/ /\ Fail(cmd, ErrIo)
        /\ UNCHANGED files
  /\ UNCHANGED <<auxVars, lineNo, keyIdx, proc, spawned, stdout, ptyIn, expKeys,
                 ackLog, waitsTaken, wtSeen>>

\* A blank or comment line: parse returns Ok(None).
NoCommand ==
  /\ CanFetch
  /\ \E i \in 1..Len(ScriptLines) :
       LET r == Fetched(i) IN
       /\ r.ok /\ r.cmd.op = "none"
       /\ lineNo' = lineNo + 1
  /\ Continue
  /\ EnvSame
  /\ UNCHANGED <<auxVars, keyIdx, proc, spawned, stdout, files, ptyIn, expKeys, ackLog,
                 waitsTaken, wtSeen>>

\* Command::parse(..)? fails.
ParseError ==
  /\ CanFetch
  /\ \E i \in 1..Len(ScriptLines) :
       LET r == Fetched(i) IN
       /\ ~r.ok
       /\ lineNo' = lineNo + 1
       /\ Fail(r.cmd, r.err)
  /\ UNCHANGED <<auxVars, keyIdx, proc, spawned, stdout, files, ptyIn, expKeys, ackLog,
                 waitsTaken, wtSeen>>

\* read_line returns Ok(0): main_loop returns Ok(()) and main exits with 0.
ScriptEof ==
  /\ pc = "read"
  /\ pc' = "exited" /\ exitCode' = 0
  /\ TearDown
  /\ UNCHANGED <<auxVars, lineNo, cmd, keyIdx, proc, spawned, error, panicked, stdout,
                 files, ptyIn, expKeys, ackLog, waitsTaken, wtSeen>>

\* read_line returns Err.
ScriptReadError ==
  /\ CanFetch
  /\ Fail(NoCmd, ErrIo)
  /\ UNCHANGED <<auxVars, lineNo, keyIdx, proc, spawned, stdout, files, ptyIn,
                 expKeys, ackLog, waitsTaken, wtSeen>>

\* ------------------------------------------------------ child, waiter, reader
Running == pc # "exited"

\* The child writes one item to its terminal.
ChildOutput ==
  /\ Running /\ child = "running" /\ emitted < MaxOut
  /\ \E item \in OutItems : ptyOut' = Append(ptyOut, item)
  /\ emitted' = emitted + 1
  /\ UNCHANGED <<auxVars, driverVars, wtSeen, child, killed, status, wpc, oneshot, rpc,
                 rbuf, vtVars>>

\* The child exits, by itself or killed.
ChildExit ==
  /\ Running /\ child = "running"
  /\ child' = "exited"
  /\ UNCHANGED <<auxVars, driverVars, wtSeen, killed, status, wpc, emitted, ptyOut,
                 oneshot, rpc, rbuf, vtVars>>

\* The waiter thread: child.wait() returns the exit status, which is zero
\* only if the child ended by itself.
WaiterReap ==
  /\ Running /\ wpc = "waiting" /\ child = "exited"
  /\ wpc' = "reaped"
  /\ status' \in {"zero", "nonzero"}
  /\ UNCHANGED <<auxVars, driverVars, wtSeen, child, killed, emitted, ptyOut,
                 oneshot, rpc, rbuf, vtVars>>

\* Mutant: the waiter thread ends without publishing the status.
WaiterSend_forgotten ==
  /\ Running /\ wpc = "reaped"
  /\ wpc' = "done"
  /\ UNCHANGED <<auxVars, driverVars, wtSeen, child, killed, status, emitted, ptyOut,
                 oneshot, rpc, rbuf, vtVars>>

\* The waiter thread: wait_send.send(result).
WaiterSend ==
  /\ Running /\ wpc = "reaped"
  /\ wpc' = "done" /\ oneshot' = "sent"
  /\ UNCHANGED <<auxVars, driverVars, wtSeen, child, killed, status, emitted, ptyOut,
                 rpc, rbuf, vtVars>>

\* reader.read returns count > 0: everything the child has written (the
\* output of the model stays below the 4096 bytes of the buffer).  The reader
\* then locks the parser: at once if the lock is free.
ReaderRead ==
  /\ Running /\ rpc = "read" /\ ptyOut # <<>>
  /\ rbuf' = ptyOut /\ ptyOut' = <<>>
  /\ IF vtLock = "free"
     THEN rpc' = "process" /\ vtLock' = "reader"
     ELSE rpc' = "lock" /\ UNCHANGED vtLock
  /\ UNCHANGED <<auxVars, driverVars, wtSeen, child, killed, status, wpc, emitted,
                 oneshot, contents, appCursor>>

\* The reader gets the VT lock it waited for.
ReaderLock ==
  /\ Running /\ rpc = "lock" /\ vtLock = "free"
  /\ rpc' = "process" /\ vtLock' = "reader"
  /\ UNCHANGED <<auxVars, driverVars, wtSeen, child, killed, status, wpc, emitted, ptyOut,
                 oneshot, rbuf, contents, appCursor>>

\* process(&buf[..count]) under the lock, then the guard is dropped.
ReaderProcess ==
  /\ Running /\ rpc = "process"
  /\ LET vt == vt_process([contents |-> contents, app |-> appCursor], rbuf) IN
       /\ contents' = vt.contents /\ appCursor' = vt.app
       /\ wtSeen' = (wtSeen \/ (InWaitText /\ Contains(vt.contents, cmd.text)))
  /\ rpc' = "read" /\ vtLock' = "free" /\ rbuf' = <<>>
  /\ UNCHANGED <<auxVars, driverVars, child, killed, status, wpc, emitted, ptyOut,
                 oneshot>>

\* The slave side is closed and nothing is left to read: read returns an
\* error (the loop breaks) or, where end of file is a zero-byte read, Ok(0)
\* (the reader sleeps 10 ms and retries).
ReaderEnd ==
  /\ Running /\ rpc = "read" /\ ptyOut = <<>> /\ child = "exited"
  /\ rpc' \in {"exited", "sleep"}
  /\ UNCHANGED <<auxVars, driverVars, wtSeen, child, killed, status, wpc, emitted, ptyOut,
                 oneshot, rbuf, vtVars>>

\* The 10 ms sleep ends.
ReaderWake ==
  /\ Running /\ rpc = "sleep"
  /\ rpc' = "read"
  /\ UNCHANGED <<auxVars, driverVars, wtSeen, child, killed, status, wpc, emitted, ptyOut,
                 oneshot, rbuf, vtVars>>

Next ==
  \/ CmdStart \/ CmdSendKeys \/ SendKey \/ CmdKill \/ CmdWait \/ WaitDone
  \/ CmdWaitText \/ WtCheck \/ WtWake \/ WtTimeout
  \/ CmdSleep \/ CmdPrint \/ CmdDumpPng \/ CmdDumpTxt \/ DumpLock \/ DumpWrite
  \/ NoCommand \/ ParseError \/ ScriptEof \/ ScriptReadError
  \/ ChildOutput \/ ChildExit \/ WaiterReap \/ WaiterSend
  \/ ReaderRead \/ ReaderLock \/ ReaderProcess \/ ReaderEnd \/ ReaderWake

Spec == Init /\ [][Next]_vars

\* A killed child dies; the waiter thread and the driver task, once they can
\* run, do run.
KilledChildExit == ChildExit /\ killed

\* The scripts made of start, kill, wait, sleep and skipped lines.
WaitNext ==
  \/ CmdStart \/ CmdKill \/ CmdWait \/ WaitDone \/ CmdSleep \/ NoCommand
  \/ ScriptEof
  \/ ChildOutput \/ ChildExit \/ WaiterReap \/ WaiterSend
  \/ ReaderRead \/ ReaderProcess \/ ReaderEnd \/ ReaderWake

FairSpec ==
  /\ Init /\ [][WaitNext]_vars
  /\ WF_vars(KilledChildExit)
  /\ WF_vars(WaiterReap) /\ WF_vars(WaiterSend) /\ WF_vars(WaitDone)

\* -------------------------------------------------------------- parser run
\* main_loop as a reader of lines: the lines read, in order, and the commands
\* handed to the match, in order.  What a command does is left out: only that
\* it was dispatched is recorded.
CanRead == sdone = "run" /\ Len(script) < MaxLines

\* A line that parses to a command: `if let Some(cmd) = cmd`.
ReadCommand ==
  /\ CanRead
  /\ \E i \in 1..Len(ScriptLines) :
       LET r == Fetched(i) IN
       /\ r.ok /\ r.cmd # NoCmd
       /\ script' = Append(script, i)
       /\ executed' = Append(executed, r.cmd)
  /\ UNCHANGED <<sdone, driverVars, wtSeen, procEnvVars, vtVars, mouseEv,
                 mouseRes, vtSize, ptySize, observed, extVars>>

\* A line for which parse returns Ok(None).
ReadNoCommand ==
  /\ CanRead
  /\ \E i \in 1..Len(ScriptLines) :
       LET r == Fetched(i) IN
       /\ r.ok /\ r.cmd = NoCmd
       /\ script' = Append(script, i)
  /\ UNCHANGED <<executed, sdone, driverVars, wtSeen, procEnvVars, vtVars,
                 mouseEv, mouseRes, vtSize, ptySize, observed, extVars>>

\* A line for which Command::parse(..)? fails: main_loop returns the error.
ReadParseError ==
  /\ CanRead
  /\ \E i \in 1..Len(ScriptLines) :
       LET r == Fetched(i) IN
       /\ ~r.ok
       /\ script' = Append(script, i)
  /\ sdone' = "error"
  /\ UNCHANGED <<executed, driverVars, wtSeen, procEnvVars, vtVars, mouseEv,
                 mouseRes, vtSize, ptySize, observed, extVars>>

\* read_line returns Ok(0).
ReadEof ==
  /\ sdone = "run"
  /\ sdone' = "eof"
  /\ UNCHANGED <<script, executed, driverVars, wtSeen, procEnvVars, vtVars,
                 mouseEv, mouseRes, vtSize, ptySize, observed, extVars>>

ScriptNext == ReadCommand \/ ReadNoCommand \/ ReadParseError \/ ReadEof

ScriptSpec == Init /\ [][ScriptNext]_vars

\* --------------------------------------------------------------- mouse run
\* Rows and columns a script may name: the ends of the u16 range and a few
\* values between.
Coords == {0, 1, 9, 99, 65534, 65535}
Buttons == {"Left", "Right", "Middle"}

\* u16::to_string, as bytes: the decimal digits, most significant first.
RECURSIVE to_string(_)
to_string(n) ==
  IF n < 10 THEN <<48 + n>> ELSE to_string(n \div 10) \o <<48 + (n % 10)>>

\* x + 1 on a u16: with overflow checks the addition panics at 65535, without
\* them it wraps.
add_one(x, overflow_checks) ==
  IF x + 1 < 65536 THEN [panic |-> FALSE, v |-> x + 1]
  ELSE IF overflow_checks THEN [panic |-> TRUE, v |-> 0]
  ELSE [panic |-> FALSE, v |-> (x + 1) % 65536]

\* The code MouseAction::encode pushes for the kind of the event: <<>> for
\* Moved, which bails.
encode_code(ev) ==
  IF ev.kind \in {"Down", "Up"}
  THEN (CASE ev.btn = "Left" -> <<48>> [] ev.btn = "Right" -> <<49>>
          [] ev.btn = "Middle" -> <<50>>)
  ELSE IF ev.kind = "Drag"
  THEN (CASE ev.btn = "Left" -> <<51, 50>> [] ev.btn = "Right" -> <<51, 51>>
          [] ev.btn = "Middle" -> <<51, 52>>)
  ELSE IF ev.kind = "ScrollDown" THEN <<54, 52>>
  ELSE IF ev.kind = "ScrollUp" THEN <<54, 53>>
  ELSE <<>>

\* MouseAction::encode: Ok(bytes), Err, or a panic of the addition.
encode(ev, overflow_checks) ==
  LET c == add_one(ev.column, overflow_checks)
      r == add_one(ev.row, overflow_checks)
  IN  IF ev.kind = "Moved" THEN [res |-> "err", bytes |-> <<>>]
      ELSE IF c.panic \/ r.panic THEN [res |-> "panic", bytes |-> <<>>]
      ELSE [res |-> "ok",
            bytes |-> <<27, 91, 60>> \o encode_code(ev) \o <<59>>
                      \o to_string(c.v) \o <<59>> \o to_string(r.v)
                      \o <<IF ev.kind = "Up" THEN 109 ELSE 77>>]

\* LuaProc click{x, y, button}: a Down event.
LuaClick ==
  /\ mouseEv = NoMouse
  /\ \E x \in Coords, y \in Coords, b \in Buttons :
       mouseEv' = [kind |-> "Down", btn |-> b, column |-> x, row |-> y]
  /\ UNCHANGED <<mouseRes, script, executed, sdone, vtSize, ptySize, observed, extVars,
                 driverVars, wtSeen, procEnvVars, vtVars>>

\* LuaProc scroll{x, y, dir}: a ScrollUp or ScrollDown event.
LuaScroll ==
  /\ mouseEv = NoMouse
  /\ \E x \in Coords, y \in Coords, k \in {"ScrollUp", "ScrollDown"} :
       mouseEv' = [kind |-> k, btn |-> "none", column |-> x, row |-> y]
  /\ UNCHANGED <<mouseRes, script, executed, sdone, vtSize, ptySize, observed, extVars,
                 driverVars, wtSeen, procEnvVars, vtVars>>

\* A caller of Proc::send_mouse with one of the other kinds of MouseEvent.
OtherMouse ==
  /\ mouseEv = NoMouse
  /\ \E x \in Coords, y \in Coords :
       \/ \E k \in {"Up", "Drag"}, b \in Buttons :
            mouseEv' = [kind |-> k, btn |-> b, column |-> x, row |-> y]
       \/ mouseEv' = [kind |-> "Moved", btn |-> "none", column |-> x, row |-> y]
  /\ UNCHANGED <<mouseRes, script, executed, sdone, vtSize, ptySize, observed, extVars,
                 driverVars, wtSeen, procEnvVars, vtVars>>

\* Proc::send_mouse: master.write_all(mouse.encode()?.as_bytes())?.  The
\* build decides what an overflowing addition does; a write that fails may
\* have written any part of the bytes.
SendMouse ==
  /\ mouseEv # NoMouse /\ mouseRes = "none"
  /\ \E overflow_checks \in BOOLEAN :
       LET e == encode(mouseEv, overflow_checks) IN
       IF e.res # "ok"
       THEN mouseRes' = e.res /\ UNCHANGED ptyIn
       ELSE \/ mouseRes' = "ok" /\ ptyIn' = ptyIn \o e.bytes
            \/ /\ mouseRes' = "err"
               /\ \E n \in 0..(Len(e.bytes) - 1) :
                    ptyIn' = ptyIn \o SubSeq(e.bytes, 1, n)
  /\ UNCHANGED <<mouseEv, script, executed, sdone, vtSize, ptySize, observed, extVars,
                 pc, lineNo, cmd, keyIdx, proc, spawned, error, panicked,
                 exitCode, stdout, files, expKeys, ackLog, waitsTaken, wtSeen,
                 procEnvVars, vtVars>>

MouseNext == LuaClick \/ LuaScroll \/ OtherMouse \/ SendMouse

MouseSpec == Init /\ [][MouseNext]_vars

\* ----------------------------------------------------------------- API run
\* The methods of LuaProc called one after the other on a started Proc, with
\* the child, the waiter and the reader running beside them.  An error of a
\* method is raised in the script, which ends on it.
MaxCalls == 2
Sizes == {[rows |-> 24, cols |-> 100]}

\* The state Proc::start leaves: the child runs, the waiter waits for it, the
\* reader reads, the parser is empty and the receiver is in place.
ApiInit ==
  /\ pc = "read" /\ lineNo = 0 /\ cmd = NoCmd /\ keyIdx = 1
  /\ proc = [pid |-> 1, wait |-> TRUE] /\ spawned = {1}
  /\ error = NoErr /\ panicked = "" /\ exitCode = -1
  /\ stdout = 0 /\ files = [png |-> <<>>, txt |-> <<>>]
  /\ child = "running" /\ killed = FALSE /\ status = "none" /\ wpc = "waiting"
  /\ emitted = 0 /\ ptyOut = <<>> /\ ptyIn = <<>>
  /\ oneshot = "empty" /\ rpc = "read" /\ rbuf = <<>>
  /\ vtLock = "free" /\ contents = <<>> /\ appCursor = FALSE
  /\ expKeys = <<>> /\ ackLog = <<>> /\ waitsTaken = 0 /\ wtSeen = FALSE
  /\ AuxInit

\* The script is between two calls and may make one more.
CanCall == pc = "read" /\ lineNo < MaxCalls

\* Mutant: the parser is reached without its mutex.
lock_vt_unlocked(l) == TRUE

\* Proc::lock_vt: vt.lock() returns once no one holds the mutex.
lock_vt(l) == l = "free"

\* Mutant: contents() takes the text off the screen.
LuaContents_taken ==
  /\ CanCall /\ lock_vt(vtLock)
  /\ lineNo' = lineNo + 1
  /\ observed' = [op |-> "contents", val |-> contents]
  /\ contents' = <<>>
  /\ UNCHANGED <<pc, cmd, keyIdx, proc, spawned, error, panicked, exitCode,
                 stdout, files, ptyIn, expKeys, ackLog, waitsTaken, wtSeen,
                 procEnvVars, vtLock, appCursor, script, executed, sdone,
                 mouseEv, mouseRes, vtSize, ptySize, extVars>>

\* contents(): the screen's contents, read under the lock.
LuaContents ==
  /\ CanCall /\ lock_vt(vtLock)
  /\ lineNo' = lineNo + 1
  /\ observed' = [op |-> "contents", val |-> contents]
  /\ UNCHANGED <<pc, cmd, keyIdx, proc, spawned, error, panicked, exitCode,
                 stdout, files, ptyIn, expKeys, ackLog, waitsTaken, wtSeen,
                 procEnvVars, vtVars, script, executed, sdone, mouseEv,
                 mouseRes, vtSize, ptySize, extVars>>

\* cell{x, y}: the cell at a position of the screen, or nil outside it, read
\* under the lock.
LuaCell ==
  /\ CanCall /\ lock_vt(vtLock)
  /\ lineNo' = lineNo + 1
  /\ \E x \in 0..1 :
       observed' = [op |-> "cell",
                    val |-> IF x < Len(contents) THEN <<contents[x + 1]>>
                            ELSE <<>>]
  /\ UNCHANGED <<pc, cmd, keyIdx, proc, spawned, error, panicked, exitCode,
                 stdout, files, ptyIn, expKeys, ackLog, waitsTaken, wtSeen,
                 procEnvVars, vtVars, script, executed, sdone, mouseEv,
                 mouseRes, vtSize, ptySize, extVars>>

\* Proc::resize: set_size on the parser under the lock, then master.resize,
\* which can fail.
LuaResize ==
  /\ CanCall /\ lock_vt(vtLock)
  /\ lineNo' = lineNo + 1
  /\ \E opts \in Sizes :
       /\ vtSize' = opts
       /\ \/ /\ ptySize' = opts
             /\ UNCHANGED <<pc, cmd, error, panicked, exitCode, procEnvVars,
                            vtVars>>
          \/ /\ Fail([op |-> "resize"], ErrIo)
             /\ UNCHANGED ptySize
  /\ UNCHANGED <<keyIdx, proc, spawned, stdout, files, ptyIn, expKeys, ackLog,
                 waitsTaken, wtSeen, script, executed, sdone, mouseEv,
                 mouseRes, observed, extVars>>

\* send_key(key): Key::parse, then Proc::send_key.
LuaSendKey ==
  /\ CanCall
  /\ lineNo' = lineNo + 1
  /\ Goto([op |-> "send_keys", keys |-> <<KeyNamed("Up")>>], "send_keys")
  /\ keyIdx' = 1
  /\ expKeys' = Append(expKeys, KeyNamed("Up"))
  /\ EnvSame
  /\ UNCHANGED <<auxVars, proc, spawned, stdout, files, ptyIn, ackLog,
                 waitsTaken, wtSeen>>

\* click{x = 0, y = 0}: send_mouse of a left Down at the origin; the write
\* can fail once the child is gone, after any part of the bytes.
LuaClickOrigin ==
  /\ CanCall
  /\ lineNo' = lineNo + 1
  /\ LET e == encode([kind |-> "Down", btn |-> "Left", column |-> 0,
                      row |-> 0], TRUE) IN
       \/ /\ ptyIn' = ptyIn \o e.bytes
          /\ UNCHANGED <<pc, cmd, error, panicked, exitCode, procEnvVars,
                         vtVars>>
       \/ /\ child # "running"
          /\ \E n \in 0..(Len(e.bytes) - 1) :
               ptyIn' = ptyIn \o SubSeq(e.bytes, 1, n)
          /\ Fail([op |-> "click"], ErrIo)
  /\ UNCHANGED <<auxVars, keyIdx, proc, spawned, stdout, files, expKeys,
                 ackLog, waitsTaken, wtSeen>>

\* kill(): the killer's result is the method's result.
LuaKill ==
  /\ CanCall
  /\ lineNo' = lineNo + 1
  /\ \/ /\ UNCHANGED <<pc, cmd, error, panicked, exitCode>>
        /\ killed' = (killed \/ child = "running")
        /\ UNCHANGED <<child, status, wpc, emitted, ptyOut, oneshot, rpc,
                       rbuf, vtVars>>
     \/ /\ wpc \in {"reaped", "done"}
        /\ Fail([op |-> "kill"], ErrKill)
  /\ UNCHANGED <<auxVars, keyIdx, proc, spawned, stdout, files, ptyIn,
                 expKeys, ackLog, waitsTaken, wtSeen>>

\* wait(): Proc::wait up to the await of the receiver.
LuaWait ==
  /\ CanCall
  /\ lineNo' = lineNo + 1
  /\ proc' = wait_take(proc).proc
  /\ IF wait_take(proc).some
     THEN /\ waitsTaken' = waitsTaken + 1
          /\ Goto([op |-> "wait"], "wait")
          /\ EnvSame
     ELSE /\ Fail([op |-> "wait"], ErrWaitTwice)
          /\ UNCHANGED waitsTaken
  /\ UNCHANGED <<auxVars, keyIdx, spawned, stdout, files, ptyIn, expKeys,
                 ackLog, wtSeen>>

\* wait_text(text, {timeout}): the poll loop starts under
\* tokio::time::timeout.
LuaWaitText ==
  /\ CanCall
  /\ lineNo' = lineNo + 1
  /\ Goto([op |-> "wait_text", text |-> <<"x">>, timeout |-> 1500], "lwt_poll")
  /\ EnvSame
  /\ UNCHANGED <<auxVars, keyIdx, proc, spawned, stdout, files, ptyIn,
                 expKeys, ackLog, waitsTaken, wtSeen>>

\* One poll: the lock is taken for the check alone; without a match the task
\* sleeps 200 ms, the lock free.
LuaWtCheck ==
  /\ pc = "lwt_poll" /\ lock_vt(vtLock)
  /\ IF WtFound(contents, cmd.text) THEN Continue ELSE Goto(cmd, "lwt_sleep")
  /\ EnvSame
  /\ UNCHANGED <<auxVars, lineNo, keyIdx, proc, spawned, stdout, files, ptyIn,
                 expKeys, ackLog, waitsTaken, wtSeen>>

\* The sleep ends and the loop polls again.
LuaWtWake ==
  /\ pc = "lwt_sleep"
  /\ Goto(cmd, "lwt_poll")
  /\ EnvSame
  /\ UNCHANGED <<auxVars, lineNo, keyIdx, proc, spawned, stdout, files, ptyIn,
                 expKeys, ackLog, waitsTaken, wtSeen>>

\* The deadline passes while the loop sleeps: the method returns the error.
LuaWtTimeout ==
  /\ pc = "lwt_sleep"
  /\ Fail(cmd, ErrTimeout)
  /\ UNCHANGED <<auxVars, lineNo, keyIdx, proc, spawned, stdout, files, ptyIn,
                 expKeys, ackLog, waitsTaken, wtSeen>>

\* dump_txt(path) and dump_png(path) up to lock_vt.
LuaDump(op) ==
  /\ CanCall
  /\ lineNo' = lineNo + 1
  /\ Goto([op |-> op, arg |-> <<"t">>], "dump_lock")
  /\ EnvSame
  /\ UNCHANGED <<auxVars, keyIdx, proc, spawned, stdout, files, ptyIn,
                 expKeys, ackLog, waitsTaken, wtSeen>>

LuaDumpTxt == LuaDump("dump_txt")
LuaDumpPng == LuaDump("dump_png")

\* The script ends.
LuaEnd ==
  /\ pc = "read"
  /\ pc' = "exited" /\ exitCode' = 0
  /\ TearDown
  /\ UNCHANGED <<auxVars, lineNo, cmd, keyIdx, proc, spawned, error, panicked,
                 stdout, files, ptyIn, expKeys, ackLog, waitsTaken, wtSeen>>

ApiNext ==
  \/ LuaContents \/ LuaCell \/ LuaResize \/ LuaSendKey \/ SendKey
  \/ LuaClickOrigin \/ LuaKill \/ LuaWait \/ WaitDone
  \/ LuaWaitText \/ LuaWtCheck \/ LuaWtWake \/ LuaWtTimeout
  \/ LuaDumpTxt \/ LuaDumpPng \/ DumpLock \/ DumpWrite \/ LuaEnd
  \/ ChildOutput \/ ChildExit \/ WaiterReap \/ WaiterSend
  \/ ReaderRead \/ ReaderLock \/ ReaderProcess \/ ReaderEnd \/ ReaderWake

ApiSpec == ApiInit /\ [][ApiNext]_vars

\* ------------------------------------------------------------ shutdown run
\* The engine shuts down beside a started Proc: the Proc is dropped, and its
\* master handle with it, while the child, the waiter thread and the reader
\* task go on.  kill() may be called while the Proc is there.

\* Drop of the Proc: the master handle is closed.
DropProc ==
  /\ master = "open" /\ pc = "read"
  /\ master' = "dropped"
  /\ UNCHANGED <<script, executed, sdone, mouseEv, mouseRes, vtSize, ptySize,
                 observed, png, canvas, num, driverVars, wtSeen, procEnvVars,
                 vtVars>>

\* The reader's read after the master was closed and what was written is
\* read: end of file, reported as an error (the loop breaks) or as Ok(0) (the
\* reader sleeps 10 ms and retries).
ReaderEof ==
  /\ Running /\ master = "dropped" /\ rpc = "read" /\ ptyOut = <<>>
  /\ rpc' \in {"exited", "sleep"}
  /\ UNCHANGED <<auxVars, driverVars, wtSeen, child, killed, status, wpc,
                 emitted, ptyOut, oneshot, rbuf, vtVars>>

KillBeforeDrop == master = "open" /\ LuaKill

\* No one else takes the parser's lock in this run: the reader has it at
\* once.
ReaderStep ==
  ReaderRead \/ ReaderProcess \/ ReaderEnd \/ ReaderEof \/ ReaderWake

ShutdownNext ==
  \/ DropProc \/ KillBeforeDrop
  \/ ChildOutput \/ ChildExit \/ WaiterReap \/ WaiterSend
  \/ ReaderRead \/ ReaderProcess \/ ReaderEnd \/ ReaderEof \/ ReaderWake

\* The reader task is scheduled: a step it can take is taken in the end.
ShutdownSpec == ApiInit /\ [][ShutdownNext]_vars /\ WF_vars(ReaderStep)

\* ----------------------------------------------------------- wait_text run
\* wait_text on a started Proc, as main_loop runs it and as LuaProc runs it,
\* followed by contents(), with the child and the reader beside them.

\* The script called wait_text under pcall: the Elapsed error is a value to
\* it and the script goes on.
LuaWtTimeoutCaught ==
  /\ pc = "lwt_sleep"
  /\ pc' = "read" /\ cmd' = NoCmd /\ error' = ErrTimeout
  /\ EnvSame
  /\ UNCHANGED <<auxVars, lineNo, keyIdx, proc, spawned, panicked, exitCode,
                 stdout, files, ptyIn, expKeys, ackLog, waitsTaken, wtSeen>>

WtNext ==
  \/ CmdWaitText \/ WtCheck \/ WtWake \/ WtTimeout
  \/ LuaWaitText \/ LuaWtCheck \/ LuaWtWake \/ LuaWtTimeout
  \/ LuaWtTimeoutCaught \/ LuaContents
  \/ ChildOutput \/ ChildExit
  \/ ReaderRead \/ ReaderLock \/ ReaderProcess \/ ReaderEnd \/ ReaderWake

WtSpec == ApiInit /\ [][WtNext]_vars

\* ------------------------------------------------------------ dump_png run
\* dump_png on a screen of h rows and w columns with one character on it, in
\* the cell (grow, gcol).  Lengths that the code keeps as f32 are counted in
\* halves of a pixel.
MaxCells == 2

\* ch_w, the advance of the glyph 'a' (2.5 px), and ch_h, the height of the
\* font (2 px), in halves of a pixel.
ch_w == 5
ch_h == 4

\* f32::round and `as u32` on a length that is not negative.
round(v) == (v + 1) \div 2
trunc(v) == v \div 2

\* The glyphs a cell may show: px_bounds().min.x and px_bounds().min.y +
\* ascent in halves of a pixel, and the pixels the outline covers.  The first
\* lies inside its cell; the others start left of it or above it, start half a
\* pixel in, or are wider than the cell.
Glyphs ==
  {[minx |-> a, miny |-> b, w |-> 2, h |-> 2] : a \in {-2, 0, 1}, b \in {-2, 0}}
    \cup {[minx |-> 0, miny |-> 0, w |-> 3, h |-> 2]}

canvas_width(w) == round(w * ch_w)
canvas_height(h) == round(h * ch_h)

\* The rectangle the background of the cell (row, col) is painted on.
CellRect(row, col) ==
  LET x0 == round(col * ch_w)
      y0 == round(row * ch_h)
  IN  {<<x, y>> : x \in x0..(x0 + trunc(ch_w) - 1),
                  y \in y0..(y0 + trunc(ch_h) - 1)}

\* The position, in halves, that outline.draw's closure computes for the
\* pixel (dx, dy) of the glyph g of the cell (row, col).
GlyphAt(row, col, g, dx, dy) ==
  [x |-> col * ch_w + 2 * dx + g.minx, y |-> row * ch_h + 2 * dy + g.miny]

\* The bounds check of the closure: against the canvas.
InCanvas(q, h, w) ==
  /\ q.x >= 0 /\ q.x < 2 * canvas_width(w)
  /\ q.y >= 0 /\ q.y < 2 * canvas_height(h)

\* The pixels put_pixel is called on for the glyph g of the cell (row, col).
GlyphPixels(row, col, g, h, w) ==
  {<<round(GlyphAt(row, col, g, dx, dy).x), round(GlyphAt(row, col, g, dx, dy).y)>> :
     <<dx, dy>> \in {d \in (0..(g.w - 1)) \X (0..(g.h - 1)) :
                       InCanvas(GlyphAt(row, col, g, d[1], d[2]), h, w)}}

\* The image of the canvas: the pixels get_pixel and put_pixel accept.
CanvasPixels(h, w) ==
  (0..(canvas_width(w) - 1)) \X (0..(canvas_height(h) - 1))

\* dump_png is called: the canvas is created for the screen.
DumpPngStart ==
  /\ png.phase = "idle"
  /\ \E h \in 1..MaxCells, w \in 1..MaxCells :
       \E grow \in 0..(h - 1), gcol \in 0..(w - 1), g \in Glyphs :
         /\ png' = [phase |-> "bg", h |-> h, w |-> w, row |-> 0, col |-> 0,
                    grow |-> grow, gcol |-> gcol, glyph |-> g]
         /\ canvas' = [p \in CanvasPixels(h, w) |-> NewPixel]
  /\ UNCHANGED <<script, executed, sdone, mouseEv, mouseRes, vtSize, ptySize,
                 observed, master, num, driverVars, wtSeen, procEnvVars,
                 vtVars>>

\* The cell after (row, col) in the order of the two loops, or the end.
NextCell(s) ==
  IF s.col + 1 < s.w THEN [s EXCEPT !.phase = "bg", !.col = s.col + 1]
  ELSE IF s.row + 1 < s.h
       THEN [s EXCEPT !.phase = "bg", !.row = s.row + 1, !.col = 0]
       ELSE [s EXCEPT !.phase = "done"]

\* The background of the cell at hand is painted.
FillBackground ==
  /\ png.phase = "bg"
  /\ canvas' = [p \in DOMAIN canvas |->
                  IF p \in CellRect(png.row, png.col)
                  THEN <<"bg", png.row, png.col>> ELSE canvas[p]]
  /\ png' = [png EXCEPT !.phase = "glyph"]
  /\ UNCHANGED <<script, executed, sdone, mouseEv, mouseRes, vtSize, ptySize,
                 observed, master, num, driverVars, wtSeen, procEnvVars,
                 vtVars>>

\* The cell at hand is empty: nothing more is drawn for it.
EmptyCell ==
  /\ png.phase = "glyph"
  /\ <<png.row, png.col>> # <<png.grow, png.gcol>>
  /\ png' = NextCell(png)
  /\ UNCHANGED <<canvas, script, executed, sdone, mouseEv, mouseRes, vtSize,
                 ptySize, observed, master, num, driverVars, wtSeen,
                 procEnvVars, vtVars>>

\* The glyph of the cell at hand is drawn: each pixel of the outline that
\* passes the bounds check is blended into the canvas.  put_pixel panics on
\* a position outside the image, which rounding can produce.
DrawGlyph ==
  /\ png.phase = "glyph"
  /\ <<png.row, png.col>> = <<png.grow, png.gcol>>
  /\ LET px == GlyphPixels(png.row, png.col, png.glyph, png.h, png.w) IN
       IF px \subseteq DOMAIN canvas
       THEN /\ canvas' = [p \in DOMAIN canvas |->
                            IF p \in px THEN <<"fg", png.row, png.col>>
                            ELSE canvas[p]]
            /\ png' = NextCell(png)
       ELSE /\ png' = [png EXCEPT !.phase = "panic"]
            /\ UNCHANGED canvas
  /\ UNCHANGED <<script, executed, sdone, mouseEv, mouseRes, vtSize, ptySize,
                 observed, master, num, driverVars, wtSeen, procEnvVars,
                 vtVars>>

PngNext == DumpPngStart \/ FillBackground \/ EmptyCell \/ DrawGlyph

PngSpec == Init /\ [][PngNext]_vars

\* -------------------------------------------------------------- number run
\* next_token on a token that starts with a digit: take_number, then the
\* suffix.  A u32 is kept as two halves of 16 bits, hi * 2^16 + lo.
Limb == 65536

\* The digit strings read: small numbers, leading zeros, the largest u32
\* (4294967295), the numbers just above it and longer ones.
DigitStrings ==
  { <<0>>, <<5>>, <<1, 5, 0, 0>>, <<0, 0, 7>>,
    <<4, 2, 9, 4, 9, 6, 7, 2, 9, 5>>, <<4, 2, 9, 4, 9, 6, 7, 2, 9, 6>>,
    <<4, 2, 9, 4, 9, 6, 7, 3, 0, 1>>, <<9, 9, 9, 9, 9, 9, 9, 9, 9, 9>>,
    <<1, 0, 0, 0, 0, 0, 0, 0, 0, 0, 0>> }

\* buf *= 10; buf += digit on a u32: the value when it fits, and whether it
\* does.  An addition that overflows follows a multiplication that did not.
times_ten_plus(buf, digit) ==
  LET lo == buf.lo * 10 + digit
      hi == buf.hi * 10 + (lo \div Limb)
  IN  [fits |-> hi < Limb, buf |-> [hi |-> hi % Limb, lo |-> lo % Limb]]

\* The token starts with a digit: take_number begins with buf = 0.  The build
\* has overflow checks or not.
NumStart ==
  /\ num.phase = "idle"
  /\ \E d \in DigitStrings, u \in {"ms", "s"}, oc \in BOOLEAN :
       num' = [phase |-> "digits", text |-> d, unit |-> u, pos |-> 1,
               buf |-> [hi |-> 0, lo |-> 0], overflow_checks |-> oc]
  /\ UNCHANGED <<script, executed, sdone, mouseEv, mouseRes, vtSize, ptySize,
                 observed, master, png, canvas, driverVars, wtSeen,
                 procEnvVars, vtVars>>

\* One turn of take_number's loop on a digit: with overflow checks an
\* overflow panics, without them buf wraps.
TakeDigit ==
  /\ num.phase = "digits" /\ num.pos <= Len(num.text)
  /\ LET r == times_ten_plus(num.buf, num.text[num.pos]) IN
       num' = IF ~r.fits /\ num.overflow_checks
              THEN [num EXCEPT !.phase = "panic", !.pos = num.pos + 1]
              ELSE [num EXCEPT !.pos = num.pos + 1, !.buf = r.buf]
  /\ UNCHANGED <<script, executed, sdone, mouseEv, mouseRes, vtSize, ptySize,
                 observed, master, png, canvas, driverVars, wtSeen,
                 procEnvVars, vtVars>>

\* The digits end: take_number returns buf and the suffix makes the token
\* Duration::from_millis(num as u64) or Duration::from_secs(num as u64).
DurationToken ==
  /\ num.phase = "digits" /\ num.pos > Len(num.text)
  /\ num' = [num EXCEPT !.phase = "token"]
  /\ UNCHANGED <<script, executed, sdone, mouseEv, mouseRes, vtSize, ptySize,
                 observed, master, png, canvas, driverVars, wtSeen,
                 procEnvVars, vtVars>>

NumNext == NumStart \/ TakeDigit \/ DurationToken

NumSpec == Init /\ [][NumNext]_vars

\* ------------------------------------------------------------------ claims
Modes(app) == [enable_csi_u_key_encoding |-> FALSE,
               application_cursor_keys |-> app,
               newline_mode |-> FALSE]

\* The bytes of the first n keys, each encoded with the mode logged for it;
\* a key that does not encode contributes nothing.
RECURSIVE ExpBytes(_, _, _)
ExpBytes(keys, modes, n) ==
  IF n = 0 THEN <<>>
  ELSE LET e == encode_key(keys[n], Modes(modes[n]))
       IN  ExpBytes(keys, modes, n - 1) \o (IF e.ok THEN e.bytes ELSE <<>>)

IsPrefix(a, b) == Len(a) <= Len(b) /\ SubSeq(b, 1, Len(a)) = a

\* C1: the slot holds at most one Proc: at most one child is ever spawned,
\* and an installed Proc is that child.
C1_AtMostOneProc ==
  /\ Cardinality(spawned) <= 1
  /\ proc.pid # 0 => spawned = {proc.pid}

\* Two more commands ran after a start installed the Proc.
C1_Witness == proc.pid # 0 /\ pc = "read" /\ lineNo >= 3

\* C2: a start executed while the slot holds a Proc fails with "Process was
\* already started", spawns nothing and leaves the Proc as it is.
C2_DuplicateStartFails ==
  [][(CmdStart /\ proc.pid # 0) =>
       /\ error' = ErrAlreadyStarted /\ pc' = "exited" /\ exitCode' = 1
       /\ spawned' = spawned /\ proc' = proc]_vars

C2_Witness == error = ErrAlreadyStarted /\ proc.pid # 0 /\ Cardinality(spawned) = 1

\* C3: send_keys, kill, wait, wait_text, dump_png and dump_txt executed on an
\* empty slot fail with "Process has not been started": nothing is written to
\* the PTY or to a file, no wait is consumed and the slot stays empty.
C3_EmptySlotFails ==
  [][(proc.pid = 0 /\
        (CmdSendKeys \/ CmdKill \/ CmdWait \/ CmdWaitText \/ CmdDumpPng \/ CmdDumpTxt)) =>
       /\ error' = ErrNotStarted /\ pc' = "exited" /\ exitCode' = 1
       /\ ptyIn' = ptyIn /\ files' = files /\ waitsTaken' = waitsTaken
       /\ proc' = NoProc /\ spawned' = spawned]_vars

C3_Witness == error = ErrNotStarted /\ proc = NoProc /\ cmd.op = "wait_text"

\* C4: the first wait on a Proc takes the receiver; every later wait fails
\* with the "more than once" error without blocking and takes nothing.
C4_WaitOnce ==
  [][(CmdWait /\ proc.pid # 0) =>
       IF waitsTaken = 0
       THEN pc' = "wait" /\ waitsTaken' = 1 /\ error' = NoErr
       ELSE /\ error' = ErrWaitTwice /\ pc' = "exited" /\ exitCode' = 1
            /\ waitsTaken' = waitsTaken]_vars

C4_Witness == error = ErrWaitTwice /\ waitsTaken = 1 /\ proc.pid # 0 /\ ~proc.wait

\* C5: once the driver has ended, its exit code is 1 if a command failed and
\* 0 if none did.
C5_FirstErrorExitsWith1 ==
  pc = "exited" =>
    exitCode = IF error # NoErr \/ panicked # "" THEN 1 ELSE 0

\* C6: the bytes written to the PTY master are the encodings, in order, of
\* the keys of the send_keys commands executed so far: all of them when no
\* send_keys is in progress, the ones already sent while one is; a write
\* that fails cuts the stream inside the encoding of its key.
C6_BytesInSubmissionOrder ==
  LET n == Len(ackLog) IN
  /\ n <= Len(expKeys)
  /\ (pc # "send_keys" /\ panicked = "") => n = Len(expKeys)
  /\ IF panicked = "write_all"
     THEN /\ IsPrefix(ExpBytes(expKeys, ackLog, n - 1), ptyIn)
          /\ IsPrefix(ptyIn, ExpBytes(expKeys, ackLog, n))
     ELSE ptyIn = ExpBytes(expKeys, ackLog, n)

\* Two send_keys commands are done, the second sent in application-cursor
\* mode.
C6_Witness ==
  /\ pc = "read" /\ Len(expKeys) >= 5 /\ Len(ackLog) = Len(expKeys)
  /\ ~ackLog[1] /\ ackLog[Len(ackLog)]
  /\ Len(ptyIn) >= 5

\* C7 as stated: a wait_text that ends with the Timeout error never had the
\* text on screen during the wait.
C7_SeenAtAnyInstantSucceeds == error = ErrTimeout => ~wtSeen

\* C7 as amended: a poll of wait_text that finds the text on screen ends the
\* wait with success, and the lock is free afterwards.
C7_PollFindsTextSucceeds ==
  [][(WtCheck /\ Contains(contents, cmd.text)) =>
       /\ pc' = "read" /\ error' = NoErr /\ exitCode' = -1
       /\ vtLock' = "free"]_vars

\* A wait_text has returned success after output of the child.
C7_Witness == pc = "read" /\ wtSeen /\ error = NoErr /\ emitted >= 1

\* C8: wait_text ends with success only in a poll that holds the lock and
\* finds the text on screen; it ends otherwise only with the Timeout error,
\* which ends the script with exit code 1.
C8_SuccessOnlyOnMatch ==
  [][(InWaitText /\ ~InWaitText') =>
       IF pc' = "read"
       THEN vtLock = "free" /\ Contains(contents, cmd.text) /\ error' = NoErr
       ELSE error' = ErrTimeout /\ pc' = "exited" /\ exitCode' = 1]_vars

\* A wait_text timed out and the text was never on screen during it.
C8_Witness == error = ErrTimeout /\ ~wtSeen /\ exitCode = 1

\* C9: send_key on a key that does not encode writes nothing and raises no
\* error: the loop goes on with the next key of the command, or the driver
\* with the next line.
C9_UnencodableKeySkipped ==
  [][(SendKey /\ ~encode_key(cmd.keys[keyIdx], Modes(appCursor)).ok) =>
       /\ ptyIn' = ptyIn
       /\ error' = NoErr /\ panicked' = "" /\ exitCode' = -1
       /\ IF keyIdx < Len(cmd.keys)
          THEN pc' = "send_keys" /\ cmd' = cmd /\ keyIdx' = keyIdx + 1
          ELSE pc' = "read"]_vars

\* The send_keys whose first key does not encode is done: only the bytes of
\* its second key were written.
C9_Witness ==
  /\ pc = "read" /\ Len(expKeys) = 2 /\ Len(ackLog) = 2
  /\ ~encode_key(expKeys[1], Modes(ackLog[1])).ok
  /\ ptyIn = <<120>>

\* C10: a write to the PTY master that fails does not crash the driver.
C10_FailedWriteTolerated == panicked # "write_all"

\* C11: a kill issued with a Proc installed never fails, whether it is the
\* first kill or a later one and whether the child still runs or not.
C11_KillNeverFails == error # ErrKill

\* C12: a wait that follows a kill returns: from every state in which the
\* driver awaits the one-shot of a killed child, the status is received and
\* the driver goes on with the next line; the one-shot is filled only by the
\* waiter, once.
C12_WaitAfterKillReturns ==
  /\ (pc = "wait" /\ killed) ~> (pc = "read" /\ oneshot = "received")
  /\ [][oneshot' # oneshot =>
          \/ oneshot = "empty" /\ oneshot' = "sent" /\ wpc = "reaped"
          \/ oneshot = "sent" /\ oneshot' = "received" /\ pc = "wait"
          \/ oneshot = "none" /\ oneshot' = "empty"
          \/ oneshot' = "none" /\ pc' = "exited"]_vars

\* The wait on a killed child has returned.
C12_Witness ==
  /\ pc = "read" /\ oneshot = "received" /\ killed /\ waitsTaken = 1
  /\ error = NoErr

\* C13: the first wait on a Proc returns success whatever the exit status of
\* the child: the driver leaves the wait only with the status received, no
\* error, and the next line to read.
C13_NonZeroExitIsNoError ==
  [][(pc = "wait" /\ pc' # "wait") =>
       /\ status \in {"zero", "nonzero"}
       /\ pc' = "read" /\ error' = NoErr /\ exitCode' = -1
       /\ oneshot' = "received"]_vars

\* A wait has returned success for a child that exited, unkilled, with a
\* non-zero status.
C13_Witness ==
  /\ pc = "read" /\ oneshot = "received" /\ status = "nonzero" /\ ~killed
  /\ error = NoErr /\ lineNo = 2

\* The final byte of an arrow key's sequence: A, B, C, D.
ArrowLetter(code) ==
  CASE code = "Up" -> 65 [] code = "Down" -> 66
    [] code = "Right" -> 67 [] code = "Left" -> 68

\* What send_key makes of the four arrow keys and of Enter in each mode.
SendKeyTable ==
  \A a \in BOOLEAN :
    /\ \A k \in {"Up", "Down", "Right", "Left"} :
         send_key(KeyNamed(k), a) =
           [write |-> TRUE, panic |-> FALSE,
            bytes |-> <<27, IF a THEN 79 ELSE 91, ArrowLetter(k)>>]
    /\ send_key(KeyNamed("Enter"), a).bytes = <<13>>

\* C14: send_key writes for an arrow key ESC [ A/B/C/D when the screen's
\* application-cursor mode is off at that call and ESC O A/B/C/D when it is
\* on; the mode goes on only when the reader processes the child's ESC[?1h;
\* Enter is a lone CR, newline mode being off.
C14_ArrowUsesCurrentCursorMode ==
  [][/\ (SendKey /\ cmd.keys[keyIdx].code \in {"Up", "Down", "Right", "Left"}
           /\ cmd.keys[keyIdx].mods = {} /\ panicked' = "") =>
          ptyIn' = ptyIn \o <<27, IF appCursor THEN 79 ELSE 91,
                              ArrowLetter(cmd.keys[keyIdx].code)>>
     /\ (appCursor' /\ ~appCursor) =>
          (rpc = "process" /\ \E i \in 1..Len(rbuf) : rbuf[i] = "APP")
     /\ SendKeyTable]_vars

\* <Up> was sent after the reader had processed ESC[?1h: ESC O A is the end
\* of what was written.
C14_Witness ==
  /\ pc = "read" /\ appCursor /\ Len(ptyIn) >= 3
  /\ SubSeq(ptyIn, Len(ptyIn) - 2, Len(ptyIn)) = <<27, 79, 65>>

\* A line as its author sees it: without whitespace and without the comment.
RECURSIVE StripLine(_)
StripLine(lex) ==
  IF lex = <<>> \/ Head(lex).t = "Hash" THEN <<>>
  ELSE IF Head(lex).t = "Space" THEN StripLine(Tail(lex))
  ELSE <<Head(lex)>> \o StripLine(Tail(lex))

Stripped == [i \in 1..Len(ScriptLines) |-> StripLine(ScriptLines[i])]
StrippedParsed == [i \in 1..Len(ScriptLines) |-> parse(Stripped[i])]
IsCommandLine(i) == Stripped[i] # <<>>
HasComment(i) == \E p \in 1..Len(ScriptLines[i]) : ScriptLines[i][p].t = "Hash"

\* The command lines among the lines read, in file order.
CommandLines == SelectSeq(script, IsCommandLine)

\* C15: the commands the driver has dispatched are, in file order, the
\* commands of the lines read that are not blank, whitespace or comment; each
\* is the command of its line with whitespace and comment taken away; only a
\* command line can fail to parse, and that line ends the run undispatched.
C15_CommandsAreCommandLines ==
  LET cl == CommandLines
      m == IF sdone = "error" THEN Len(cl) - 1 ELSE Len(cl)
  IN  /\ sdone = "error" => IsCommandLine(script[Len(script)])
      /\ Len(executed) = m
      /\ \A k \in 1..m :
           /\ executed[k] = StrippedParsed[cl[k]].cmd
           /\ executed[k].op = Stripped[cl[k]][1].v

\* The script is over: a skipped line, a command with a comment after its
\* tokens and a comment line were read, and one command was dispatched.
C15_Witness ==
  /\ sdone = "eof" /\ Len(script) = 3 /\ Len(executed) = 1
  /\ ~IsCommandLine(script[1]) /\ ~HasComment(script[1])
  /\ IsCommandLine(script[2]) /\ HasComment(script[2])
  /\ ~IsCommandLine(script[3]) /\ HasComment(script[3])

\* C16: every dispatched command comes from a line of its shape: kill and
\* wait from a line with no token after the identifier, sleep, print,
\* dump_png and dump_txt from a line with exactly one.
C16_ShapeEnforced ==
  \A k \in 1..Len(executed) :
    LET l == Stripped[CommandLines[k]] IN
    /\ executed[k].op \in {"kill", "wait"} => Len(l) = 1
    /\ executed[k].op \in {"sleep", "print", "dump_png", "dump_txt"} => Len(l) = 2

\* The number a sequence of decimal digits writes; -1 if it is none.
RECURSIVE FromDecimal(_)
FromDecimal(b) ==
  IF b = <<>> THEN -1
  ELSE IF b[Len(b)] < 48 \/ b[Len(b)] > 57 THEN -1
  ELSE IF Len(b) = 1 THEN b[1] - 48
  ELSE LET hi == FromDecimal(SubSeq(b, 1, Len(b) - 1))
       IN  IF hi <= 0 THEN -1 ELSE 10 * hi + (b[Len(b)] - 48)

\* The positions of the semicolons of a byte sequence.
Semicolons(b) == {i \in 1..Len(b) : b[i] = 59}

\* What an SGR-1006 report says: its code, column, row and final byte.
Report(b) ==
  LET s == Semicolons(b)
      i == CHOOSE i \in s : \A j \in s : i <= j
      k == CHOOSE k \in s : \A j \in s : j <= k
  IN  IF Len(b) < 9 \/ SubSeq(b, 1, 3) # <<27, 91, 60>> \/ Cardinality(s) # 2
      THEN [code |-> -1, column |-> -1, row |-> -1, final |-> 0]
      ELSE [code |-> FromDecimal(SubSeq(b, 4, i - 1)),
            column |-> FromDecimal(SubSeq(b, i + 1, k - 1)),
            row |-> FromDecimal(SubSeq(b, k + 1, Len(b) - 1)),
            final |-> b[Len(b)]]

\* The code the protocol gives an event.
ReportCode(ev) ==
  LET n == CASE ev.btn = "Left" -> 0 [] ev.btn = "Right" -> 1
             [] ev.btn = "Middle" -> 2 [] OTHER -> 0
  IN  CASE ev.kind \in {"Down", "Up"} -> n
        [] ev.kind = "Drag" -> 32 + n
        [] ev.kind = "ScrollUp" -> 65
        [] ev.kind = "ScrollDown" -> 64
        [] OTHER -> -1

\* C17: send_mouse on an event with row and column in 0..65535 never panics;
\* when it writes, the bytes are ESC [ < CODE ; column+1 ; row+1 and M, or m
\* for Up, in that order; on a Moved event it returns an error and nothing is
\* written.
C17_MouseReport ==
  (mouseEv # NoMouse /\ mouseRes # "none") =>
    /\ mouseRes # "panic"
    /\ mouseEv.kind = "Moved" => (mouseRes = "err" /\ ptyIn = <<>>)
    /\ mouseRes = "ok" =>
         Report(ptyIn) = [code |-> ReportCode(mouseEv),
                          column |-> mouseEv.column + 1,
                          row |-> mouseEv.row + 1,
                          final |-> IF mouseEv.kind = "Up" THEN 109 ELSE 77]

\* C18: while the wait_text poller sleeps between two polls the VT lock is
\* free.
C18_NoLockAcrossSleep == pc = "wt_sleep" => vtLock = "free"

\* C19: accesses to the VT parser are mutually exclusive.  The reader is
\* inside process() exactly while rpc = "process"; a dump is inside the parser
\* while pc = "dump"; contents, cell, resize, the mode query of send_key and the
\* check of wait_text are single steps.  Never are the reader and a dump inside
\* at the same time, and no observer step happens while the reader is inside.
ObserverAccess ==
  \/ LuaContents \/ LuaCell \/ LuaResize \/ SendKey \/ LuaWtCheck
  \/ DumpLock \/ DumpWrite

C19_ParserAccessExclusive ==
  /\ [](~(rpc = "process" /\ pc = "dump"))
  /\ [](rpc = "process" => vtLock = "reader")
  /\ [][rpc = "process" => ~ObserverAccess]_vars

\* A dump holds the parser while the reader has bytes for it and waits.
C19_Witness == pc = "dump" /\ vtLock = "driver" /\ rpc = "lock" /\ rbuf # <<>>

\* C20, as stated: every driver operation that returns leaves the parser as
\* it was, its size included.  A step of a driver operation is a step that
\* moves the script: each call counts in lineNo and each later step of a call
\* changes pc; the child, the waiter and the reader leave both alone.
DriverOp == <<pc, lineNo>>' # <<pc, lineNo>>

C21_ReaderExitsAfterDrop == (master = "dropped") ~> (rpc = "exited")

\* C22: when wait_text ends, by a match or by its timeout, the driver holds no
\* lock on the parser and is out of the poll loop: between two commands the
\* lock is free or the reader's, so the reader can update the screen and the
\* next command can take the lock.
WtStates == {"wt_lock", "wt_sleep", "lwt_poll", "lwt_sleep"}

C22_WaitTextLeavesNoLock ==
  /\ [](pc \in {"read", "exited"} => vtLock # "driver")
  /\ [](pc = "read" /\ rpc = "lock" => ENABLED ReaderLock)
  /\ [][(pc \in WtStates /\ pc' \notin WtStates)
         => pc' \in {"read", "exited"} /\ vtLock' # "driver"]_vars

\* A wait_text has timed out, the script went on, and the reader is writing
\* to the screen.
C22_Witness ==
  /\ pc = "read" /\ error = ErrTimeout /\ rpc = "process" /\ vtLock = "reader"

\* C23: drawing the glyph of a cell changes only pixels of that cell's
\* rectangle.
C23_GlyphStaysInCell ==
  [][DrawGlyph =>
       \A p \in DOMAIN canvas :
         canvas'[p] # canvas[p] => p \in CellRect(png.row, png.col)]_vars

\* C24: once a start has succeeded the slot holds that Proc to the end: no
\* step empties the slot or puts another Proc in it, and a start executed on
\* the full slot, also after kill and after a completed wait, fails with
\* "Process was already started" and spawns nothing.
C24_SlotKeepsProc ==
  [][proc.pid # 0 =>
       /\ proc'.pid = proc.pid
       /\ (lineNo' # lineNo /\ CmdStart) =>
            /\ error' = ErrAlreadyStarted /\ pc' = "exited"
            /\ spawned' = spawned]_vars

\* A start failed after the wait for the child had completed.
C24_Witness ==
  /\ error = ErrAlreadyStarted /\ cmd.op = "start"
  /\ proc.pid # 0 /\ ~proc.wait /\ waitsTaken = 1

\* C25: the parser and the PTY have the same size after start and after every
\* resize, and a resize that returns an error leaves both sizes as they were.
C25_SizesAgree ==
  /\ [](vtSize = ptySize)
  /\ [][(LuaResize /\ error' # NoErr) => UNCHANGED <<vtSize, ptySize>>]_vars

\* C26: the token d ms (d s) is a duration of exactly the decimal value of d
\* milliseconds (seconds): reading d never panics, and the number read,
\* written in decimal, is d without its leading zeros.
RECURSIVE Decimal(_)
Decimal(v) ==
  LET top == v.hi % 10
      rest == top * Limb + v.lo
      q == [hi |-> v.hi \div 10, lo |-> rest \div 10]
  IN  IF q.hi = 0 /\ q.lo = 0 THEN <<rest % 10>>
      ELSE Append(Decimal(q), rest % 10)

RECURSIVE Canonical(_)
Canonical(d) ==
  IF Len(d) > 1 /\ d[1] = 0 THEN Canonical(Tail(d)) ELSE d

C26_DurationExact ==
  /\ num.phase # "panic"
  /\ num.phase = "token" => Decimal(num.buf) = Canonical(num.text)

====
